---- MODULE Spec2Model ----
(***************************************************************************)
(* A model of MarkdownParser (src/parseclass.js): the line classifier      *)
(* getBlockInfo, the block assembler and the paragraph / inline post-pass  *)
(* of parseMarkdown, and reset.                                            *)
(*                                                                         *)
(* A JavaScript string is a sequence of tokens.  Every character a         *)
(* document may hold is a token of its own, so substring()/length count    *)
(* characters exactly on input text.  The words only the parser itself     *)
(* writes (tag names, entity bodies, the class attribute) are one token    *)
(* each; no document character occurs inside them.                         *)
(*                                                                         *)
(* The file is a classic script (`let MarkdownParser = (() => {...})()`,   *)
(* no export): `this` inside its arrow functions is the enclosing scope's  *)
(* `this`, one object for every instance.                                  *)
(***************************************************************************)
EXTENDS Integers, Sequences, FiniteSets, TLC

VARIABLES
    state,            \* holder object -> its `state` property (this.state)
    constructed,      \* the MarkdownParser instances that exist
    pc,               \* "idle" | "lines" | "post" | "finish" | "returned"
    self,             \* the instance the last operation was invoked on
    op,               \* the last operation invoked
    raw_markdown,     \* argument of the running / last parseMarkdown call
    entry,            \* this.state as that call found it
    raw_lines,        \* local of parseMarkdown
    k,                \* local of parseMarkdown: 0-based line index
    parsed_lines,     \* local of parseMarkdown: the fragments
    not_a_paragraph,  \* local of parseMarkdown: 0-based indices flagged exempt
    i,                \* local of parseMarkdown: 0-based post-pass index
    ret,              \* value returned by the last parseMarkdown call
    leftover          \* <<s>>: reset discarded the state s and no parse has
                      \* returned to its caller since; <<>> otherwise

vars == <<state, constructed, pc, self, op, raw_markdown, entry, raw_lines, k,
          parsed_lines, not_a_paragraph, i, ret, leftover>>

----------------------------------------------------------------------------
(* Bounds of the model *)

\* lines of a document of Documents
MaxLines == 2

\* leading > characters of a quoted line
MaxDepth == 2

\* lines of a document of FenceDocuments
MaxFenceLines == 4

\* characters of a document of Texts
MaxText == 5

\* characters of a line in the documents that exercise the classifier
MaxLineLen == 4

----------------------------------------------------------------------------
(* Strings *)

Whitespace == {" ", "\n", "\r"}

LineTerminators == {"\n", "\r"}

Min(S) == CHOOSE x \in S : \A y \in S : x <= y

Max(S) == CHOOSE x \in S : \A y \in S : x >= y

\* String.prototype.substring(from), 0-based
substring(s, from) == SubSeq(s, from + 1, Len(s))

\* String.prototype.trimEnd()
trimEnd(s) ==
    LET keep == {j \in 1..Len(s) : s[j] \notin Whitespace}
    IN  IF keep = {} THEN <<>> ELSE SubSeq(s, 1, Max(keep))

\* String.prototype.trim()
trim(s) ==
    LET keep == {j \in 1..Len(s) : s[j] \notin Whitespace}
    IN  IF keep = {} THEN <<>> ELSE SubSeq(s, Min(keep), Max(keep))

\* pat occurs in s at 1-based position p
OccursAt(s, pat, p) ==
    /\ p >= 1
    /\ p + Len(pat) - 1 <= Len(s)
    /\ \A j \in 1..Len(pat) : s[p + j - 1] = pat[j]

\* String.prototype.indexOf(pat), 0-based, -1 when absent
indexOf(s, pat) ==
    LET at == {p \in 1..Len(s) : OccursAt(s, pat, p)}
    IN  IF at = {} THEN -1 ELSE Min(at) - 1

\* String.prototype.replace(pat, rep) with a string pattern: the first
\* occurrence only
replaceAt(s, at, n, rep) ==
    IF at = -1 THEN s ELSE SubSeq(s, 1, at) \o rep \o SubSeq(s, at + n + 1, Len(s))

replace(s, pat, rep) == replaceAt(s, indexOf(s, pat), Len(pat), rep)

\* String.prototype.repeat(n)
RECURSIVE repeat(_, _)
repeat(s, n) == IF n <= 0 THEN <<>> ELSE s \o repeat(s, n - 1)

\* Array.prototype.join('')
RECURSIVE join(_)
join(frags) == IF frags = <<>> THEN <<>> ELSE Head(frags) \o join(Tail(frags))

\* String.prototype.split(/\r?\n/)
RECURSIVE split(_)
split(s) ==
    LET nl == {p \in 1..Len(s) : s[p] = "\n"}
    IN  IF nl = {} THEN <<s>>
        ELSE LET p   == Min(nl)
                 cut == IF p > 1 /\ s[p - 1] = "\r" THEN p - 2 ELSE p - 1
             IN  <<SubSeq(s, 1, cut)>> \o split(SubSeq(s, p + 1, Len(s)))

\* number of occurrences of pat in s
Count(s, pat) == Cardinality({p \in 1..Len(s) : OccursAt(s, pat, p)})

----------------------------------------------------------------------------
(* Sanitizer and tag wrapper *)

SANITIZE_REPLACEMENTS ==
    << << <<"<">>, <<"&", "lt;">> >>, << <<">">>, <<"&", "gt;">> >> >>

escapeHTMLChars(text) ==
    LET t0 == replace(text, <<"&">>, <<"&", "amp;">>)
        t1 == replace(t0, SANITIZE_REPLACEMENTS[1][1], SANITIZE_REPLACEMENTS[1][2])
    IN  replace(t1, SANITIZE_REPLACEMENTS[2][1], SANITIZE_REPLACEMENTS[2][2])

OpenTag(tag) == <<"<", tag, ">">>

CloseTag(tag) == <<"<", "/", tag, ">">>

wrapWithTag(tag, text) == OpenTag(tag) \o escapeHTMLChars(text) \o CloseTag(tag)

isEmpty(str) == Len(trim(str)) = 0

----------------------------------------------------------------------------
(* INLINE: the four span rules, in the order they are applied *)

INLINE == <<
    [original |-> <<"*", "*">>, tag |-> "strong"],
    [original |-> <<"_", "_">>, tag |-> "strong"],
    [original |-> <<"*">>,      tag |-> "em"],
    [original |-> <<"_">>,      tag |-> "em"] >>

\* the delimiter stands at 1-based position p and no backslash precedes it:
\* (?<!\\)[c]{n}
DelimAt(s, d, p) ==
    /\ OccursAt(s, d, p)
    /\ (p = 1 \/ s[p - 1] # "\\")

\* the positions at which the closing delimiter of a span opened at a can
\* stand: (.+?) holds at least one character and no line terminator
Closers(s, d, a) ==
    {e \in (a + Len(d) + 1)..Len(s) :
        /\ DelimAt(s, d, e)
        /\ \A j \in (a + Len(d))..(e - 1) : s[j] \notin LineTerminators}

\* [...str.matchAll(matcher)] from 1-based position p on: leftmost start,
\* lazy group, the scan resuming past each match
RECURSIVE matchAllFrom(_, _, _)
matchAllFrom(s, d, p) ==
    LET starts == {a \in p..Len(s) : DelimAt(s, d, a) /\ Closers(s, d, a) # {}}
    IN  IF starts = {} THEN <<>>
        ELSE LET a == Min(starts)
                 e == Min(Closers(s, d, a))
             IN  << <<SubSeq(s, a, e + Len(d) - 1), SubSeq(s, a + Len(d), e - 1)>> >>
                 \o matchAllFrom(s, d, e + Len(d))

matchAll(s, d) == matchAllFrom(s, d, 1)

\* the body of `for (const match of matches)`, src/parseclass.js:250-252
RECURSIVE replaceMatches(_, _, _)
replaceMatches(frag, matches, tag) ==
    IF matches = <<>> THEN frag
    ELSE replaceMatches(replace(frag, Head(matches)[1], wrapWithTag(tag, Head(matches)[2])),
                        Tail(matches), tag)

\* one pass of `for (const k of INLINE)` from rule r on
RECURSIVE applyInline(_, _)
applyInline(frag, r) ==
    IF r > Len(INLINE) THEN frag
    ELSE applyInline(replaceMatches(frag, matchAll(frag, INLINE[r].original), INLINE[r].tag),
                     r + 1)

\* the paragraph test and wrap of the post-pass, src/parseclass.js:243-245
paragraph(frag, exempt) ==
    IF ~exempt /\ indexOf(frag, <<"<">>) = -1 THEN wrapWithTag("p", frag) ELSE frag

\* the body of the post-pass loop for one fragment
postFragment(frag, exempt) == applyInline(paragraph(frag, exempt), 1)

----------------------------------------------------------------------------
(* BLOCK, BLOCK_MATCHERS and getBlockInfo *)

\* the backtick character is written "~" (no document of the model holds a tilde)
BT == "~"

FENCE == <<BT, BT, BT>>

NoMatch == [ok |-> FALSE, text |-> <<>>]

\* number of leading tokens of s that are in S
LeadingRun(s, S) ==
    LET other == {j \in 1..Len(s) : s[j] \notin S}
    IN  IF other = {} THEN Len(s) ELSE Min(other) - 1

\* BLOCK_MATCHERS[0]: three backticks anywhere
matchFence(s) ==
    IF indexOf(s, FENCE) >= 0 THEN [ok |-> TRUE, text |-> FENCE] ELSE NoMatch

\* BLOCK_MATCHERS[1]: leading whitespace, then one to six #
matchAtx(s) ==
    LET ws     == LeadingRun(s, Whitespace)
        hashes == LeadingRun(substring(s, ws), {"#"})
    IN  IF hashes >= 1
        THEN [ok |-> TRUE, text |-> SubSeq(s, 1, ws + (IF hashes > 6 THEN 6 ELSE hashes))]
        ELSE NoMatch

\* BLOCK_MATCHERS[2]: a run of = or a run of -, then whitespace, to the end
matchSetext(s) ==
    IF \E c \in {"=", "-"} :
          LET run == LeadingRun(s, {c})
          IN  run >= 1 /\ LeadingRun(substring(s, run), Whitespace) = Len(s) - run
    THEN [ok |-> TRUE, text |-> s]
    ELSE NoMatch

\* BLOCK_MATCHERS[3]: a leading run of >, then whitespace
matchQuote(s) ==
    LET run == LeadingRun(s, {">"})
    IN  IF run >= 1
        THEN [ok |-> TRUE, text |-> SubSeq(s, 1, run + LeadingRun(substring(s, run), Whitespace))]
        ELSE NoMatch

\* a faulty order, which tries the blockquote matcher first
blockquoteMatcherFirst ==
    <<"blockquote", "code_container_marker", "atx_heading", "setext_heading">>

BLOCK_MATCHERS == <<"code_container_marker", "atx_heading", "setext_heading", "blockquote">>

matcher(name, s) ==
    CASE name = "code_container_marker" -> matchFence(s)
      [] name = "atx_heading"           -> matchAtx(s)
      [] name = "setext_heading"        -> matchSetext(s)
      [] name = "blockquote"            -> matchQuote(s)

getBlockInfo(line, start_pos) ==
    LET s    == substring(line, start_pos)
        hits == {j \in 1..Len(BLOCK_MATCHERS) : matcher(BLOCK_MATCHERS[j], s).ok}
    IN  IF isEmpty(s) THEN [block |-> "break", matched |-> <<>>]
        ELSE IF hits = {} THEN [block |-> "plaintext", matched |-> <<>>]
        ELSE [block   |-> BLOCK_MATCHERS[Min(hits)],
              matched |-> matcher(BLOCK_MATCHERS[Min(hits)], s).text]

HeadingTag(n) == <<"h1", "h2", "h3", "h4", "h5", "h6">>[n]

\* BLOCK.setext_heading.parse: parsed_lines as the handler leaves them
setextHeading(lines, matched) ==
    IF Len(lines) > 0
    THEN [lines EXCEPT ![Len(lines)] =
             wrapWithTag(IF indexOf(matched, <<"=">>) > -1 THEN "h1" ELSE "h2",
                         lines[Len(lines)])]
    ELSE lines

\* BLOCK[block].parse: `object` tells whether an array [text, last] is
\* returned; `lines` is parsed_lines as the call leaves it
parse(block, lines_in, idx, line_start_pos, lines, matched) ==
    CASE block = "break" ->
            [object |-> TRUE, text |-> <<"<", "br /", ">">>, last |-> idx, lines |-> lines]
      [] block = "atx_heading" ->
            [object |-> TRUE,
             text   |-> wrapWithTag(HeadingTag(Len(trim(matched))),
                            trim(replace(substring(lines_in[idx + 1], line_start_pos),
                                         matched, <<>>))),
             last   |-> idx, lines |-> lines]
      [] block = "setext_heading" ->
            [object |-> FALSE, text |-> <<>>, last |-> idx,
             lines  |-> setextHeading(lines, matched)]
      [] block = "plaintext" ->
            [object |-> TRUE, text |-> substring(lines_in[idx + 1], line_start_pos),
             last |-> idx, lines |-> lines]
      [] OTHER ->  \* blockquote, code_container_marker: empty bodies
            [object |-> FALSE, text |-> <<>>, last |-> idx, lines |-> lines]

----------------------------------------------------------------------------
(* parseMarkdown, one loop iteration at a time.  A context c holds what the *)
(* iteration reads and writes: this.state, k, parsed_lines, not_a_paragraph *)

BLOCKQUOTE_OPEN == OpenTag("blockquote")

BLOCKQUOTE_CLOSE == CloseTag("blockquote")

\* src/parseclass.js:190-200: a fence marker line
codeContainerMarkerLine(c, lines) ==
    LET line     == trimEnd(lines[c.k + 1])
        inside   == ~c.state.insideCodeContainer
        language == substring(line, 3)
        tag      == IF inside
                    THEN IF isEmpty(language) THEN OpenTag("pre")
                         ELSE <<"<", "pre", " class=\"lang-">> \o language \o <<"\"", ">">>
                    ELSE CloseTag("pre")
    IN  [c EXCEPT !.state.insideCodeContainer = inside,
                  !.parsed_lines = Append(@, tag),
                  !.k = @ + 1]

\* src/parseclass.js:201-206: a line inside an open code container
codeContainerContentLine(c, lines) ==
    [c EXCEPT !.parsed_lines = Append(@, escapeHTMLChars(lines[c.k + 1]) \o <<"\n">>),
              !.not_a_paragraph = @ \cup {Len(c.parsed_lines)},
              !.k = @ + 1]

\* a faulty depth computation, which counts the whitespace of the prefix
blockquoteTagsUntrimmed(c, info) ==
    LET level      == c.state.blockquoteLevel
        depth_diff == Len(info.matched) - level
    IN  IF info.block = "blockquote"
        THEN IF depth_diff # 0
             THEN [c EXCEPT !.parsed_lines =
                                Append(@, repeat(IF depth_diff < 0 THEN BLOCKQUOTE_CLOSE
                                                 ELSE BLOCKQUOTE_OPEN,
                                                 IF depth_diff < 0 THEN -depth_diff ELSE depth_diff)),
                            !.state.blockquoteLevel = level + depth_diff]
             ELSE c
        ELSE IF level > 0
             THEN [c EXCEPT !.parsed_lines = Append(@, repeat(BLOCKQUOTE_CLOSE, level))]
             ELSE c

\* src/parseclass.js:211-223: the blockquote tags of a line, and the state
blockquoteTags(c, info) ==
    LET level      == c.state.blockquoteLevel
        depth_diff == Len(trim(info.matched)) - level
    IN  IF info.block = "blockquote"
        THEN IF depth_diff # 0
             THEN [c EXCEPT !.parsed_lines =
                                Append(@, repeat(IF depth_diff < 0 THEN BLOCKQUOTE_CLOSE
                                                 ELSE BLOCKQUOTE_OPEN,
                                                 IF depth_diff < 0 THEN -depth_diff ELSE depth_diff)),
                            !.state.blockquoteLevel = level + depth_diff]
             ELSE c
        ELSE IF level > 0
             THEN [c EXCEPT !.parsed_lines = Append(@, repeat(BLOCKQUOTE_CLOSE, level))]
             ELSE c

\* a faulty loop end, which advances only past a handler that returned a fragment
pushResultOrStay(c, idx, result) ==
    IF result.object
    THEN [c EXCEPT !.parsed_lines = Append(result.lines, result.text),
                   !.k = IF result.last >= idx THEN result.last + 1 ELSE @]
    ELSE [c EXCEPT !.parsed_lines = result.lines]

\* src/parseclass.js:227-235: the fragment a handler returned is pushed
pushResult(c, idx, result) ==
    IF result.object
    THEN [c EXCEPT !.parsed_lines = Append(result.lines, result.text),
                   !.k = IF result.last >= idx THEN result.last + 1 ELSE @]
    ELSE [c EXCEPT !.parsed_lines = result.lines,
                   !.k = @ + 1]

\* src/parseclass.js:227: the handler of the block class is called
dispatch(c, lines, nest_offset, info) ==
    pushResult(c, c.k, parse(info.block, lines, c.k, nest_offset, c.parsed_lines,
                             info.matched))

\* src/parseclass.js:211-235: a line classified as `first` outside a code
\* container; a quoted line is classified again past its prefix
classifiedLine(c, lines, line, first) ==
    IF first.block = "blockquote"
    THEN dispatch(blockquoteTags(c, first), lines, Len(first.matched),
                  getBlockInfo(line, Len(first.matched)))
    ELSE dispatch(blockquoteTags(c, first), lines, 0, first)

trimmedLine(c, lines) == trimEnd(lines[c.k + 1])

blockLine(c, lines) ==
    classifiedLine(c, lines, trimmedLine(c, lines), getBlockInfo(trimmedLine(c, lines), 0))

\* which branch of the loop body the line at c.k takes
branch(c, lines) ==
    IF getBlockInfo(trimmedLine(c, lines), 0).block = "code_container_marker"
    THEN "marker"
    ELSE IF c.state.insideCodeContainer THEN "content" ELSE "block"

\* the body of `while (k < raw_lines.length)`, src/parseclass.js:180-236
lineStep(c, lines) ==
    IF getBlockInfo(trimmedLine(c, lines), 0).block = "code_container_marker"
    THEN codeContainerMarkerLine(c, lines)
    ELSE IF c.state.insideCodeContainer
         THEN codeContainerContentLine(c, lines)
         ELSE blockLine(c, lines)

\* the body of the post-pass loop, src/parseclass.js:242-256
postStep(frags, exempt, idx) ==
    [frags EXCEPT ![idx + 1] = postFragment(frags[idx + 1], idx \in exempt)]

\* src/parseclass.js:258-260: the closing tags pushed after the post-pass
closeBlockquotes(frags, st) ==
    IF st.blockquoteLevel > 0
    THEN Append(frags, repeat(BLOCKQUOTE_CLOSE, st.blockquoteLevel))
    ELSE frags

\* a faulty test, which does not trim
returnsEarlyUntrimmed(input) == input.type # "string" \/ Len(input.val) = 0

\* src/parseclass.js:171: the test for the early return
returnsEarly(input) == input.type # "string" \/ Len(trim(input.val)) = 0

\* the block-assembly loop run to its end
RECURSIVE assemble(_, _)
assemble(c, lines) ==
    IF c.k < Len(lines) THEN assemble(lineStep(c, lines), lines) ELSE c

\* the post-pass loop run to its end
RECURSIVE postPass(_, _, _)
postPass(frags, exempt, idx) ==
    IF idx < Len(frags) THEN postPass(postStep(frags, exempt, idx), exempt, idx + 1)
    ELSE frags

\* a whole call of parseMarkdown on the state st: what it returns and the
\* state it leaves
parseMarkdown(st, input) ==
    IF returnsEarly(input) THEN [ret |-> <<>>, state |-> st]
    ELSE LET c == assemble([state |-> st, k |-> 0, parsed_lines |-> <<>>,
                            not_a_paragraph |-> {}], split(input.val))
         IN  [ret   |-> join(closeBlockquotes(
                                postPass(c.parsed_lines, c.not_a_paragraph, 0), c.state)),
              state |-> c.state]

----------------------------------------------------------------------------
(* The parser objects *)

Instances == {"A", "B"}

\* the object `this` names inside reset and parseMarkdown when they are
\* invoked on `receiver`: both are arrow functions, so it is the `this` of
\* the enclosing script whatever the receiver
ThisBinding(receiver) == "outer"

\* the object reset assigns to this.state
FreshState ==
    [blockquoteLevel |-> 0, insideCodeContainer |-> FALSE, listLevel |-> 0,
     listType |-> "null"]

\* a faulty reset, which clears the blockquote level of the existing state only
resetLevelOnly(old) == [old EXCEPT !.blockquoteLevel = 0]

\* MarkdownParser.prototype.reset: the new value of this.state
reset(old) == FreshState

StateSeenBy(inst) == state[ThisBinding(inst)]

----------------------------------------------------------------------------
(* Inputs *)

Str(v) == [type |-> "string", val |-> v]

NonStrings ==
    {[type |-> t, val |-> <<>>] : t \in {"undefined", "number", "object"}}

NoInput == [type |-> "none", val |-> <<>>]

QuoteLines == {repeat(<<">">>, d) \o <<" ", "a">> : d \in 1..MaxDepth}

Lines ==
    QuoteLines \cup
    { <<>>, <<" ">>, <<"a">>, <<"*", "a", "*">>, <<"<", "&", "<", "&">>,
      FENCE, FENCE \o <<"a">>, <<"#", " ", "a">>, <<"=", "=">>, <<"-">>,
      <<">">>, <<">", " ", ">", " ", "a">> }

\* the documents of exactly n lines
RECURSIVE DocsOf(_)
DocsOf(n) ==
    IF n = 1 THEN Lines
    ELSE {d \o <<"\n">> \o l : d \in DocsOf(n - 1), l \in Lines}

Documents == UNION {DocsOf(n) : n \in 1..MaxLines}

Inputs == NonStrings \cup {Str(d) : d \in Documents}

\* documents of fence markers, setext underlines and text
FenceLines == {FENCE, <<"=", "=">>, <<"a">>}

RECURSIVE FenceDocsOf(_)
FenceDocsOf(n) ==
    IF n = 1 THEN FenceLines
    ELSE {d \o <<"\n">> \o l : d \in FenceDocsOf(n - 1), l \in FenceLines}

FenceInputs == {Str(d) : d \in UNION {FenceDocsOf(n) : n \in 1..MaxFenceLines}}

\* documents of lines with a blockquote prefix, and of text
PrefixedLines ==
    QuoteLines \cup
    { <<"a">>, <<">">>, <<">">> \o FENCE, <<">", " ", "#", " ", "a">>,
      <<">", " ", ">", " ", "a">>, <<">", "=">> }

RECURSIVE PrefixedDocsOf(_)
PrefixedDocsOf(n) ==
    IF n = 1 THEN PrefixedLines
    ELSE {d \o <<"\n">> \o l : d \in PrefixedDocsOf(n - 1), l \in PrefixedLines}

PrefixedInputs == {Str(d) : d \in UNION {PrefixedDocsOf(n) : n \in 1..MaxLines}}

\* one-line documents of the characters the block matchers look at
ClassifierChars == {">", "#", "=", "-", " ", "a", BT}

RECURSIVE ClassifierTextsOf(_)
ClassifierTextsOf(n) ==
    IF n = 0 THEN {<<>>}
    ELSE {Append(t, c) : t \in ClassifierTextsOf(n - 1), c \in ClassifierChars}

ClassifierInputs == {Str(t) : t \in UNION {ClassifierTextsOf(n) : n \in 1..MaxLineLen}}

\* one-line documents of emphasis delimiters, reserved characters and text
TextChars == {"*", "_", "a", "&", "<", "\\"}

RECURSIVE TextsOf(_)
TextsOf(n) ==
    IF n = 0 THEN {<<>>}
    ELSE {Append(t, c) : t \in TextsOf(n - 1), c \in TextChars}

TextInputs == {Str(t) : t \in UNION {TextsOf(n) : n \in 1..MaxText}}

----------------------------------------------------------------------------
(* Operations *)

locals == <<raw_lines, k, parsed_lines, not_a_paragraph, i>>

Context ==
    [state |-> StateSeenBy(self), k |-> k, parsed_lines |-> parsed_lines,
     not_a_paragraph |-> not_a_paragraph]

\* new MarkdownParser(): the constructor calls this.reset()
Construct(inst) ==
    /\ pc = "idle"
    /\ inst \notin constructed
    /\ constructed' = constructed \cup {inst}
    /\ state' = [state EXCEPT ![ThisBinding(inst)] = reset(@)]
    /\ leftover' = <<state[ThisBinding(inst)]>>
    /\ self' = inst
    /\ op' = "new"
    /\ UNCHANGED <<pc, raw_markdown, entry, ret, locals>>

\* inst.reset()
Reset(inst) ==
    /\ pc = "idle"
    /\ inst \in constructed
    /\ state' = [state EXCEPT ![ThisBinding(inst)] = reset(@)]
    /\ leftover' = <<state[ThisBinding(inst)]>>
    /\ self' = inst
    /\ op' = "reset"
    /\ UNCHANGED <<constructed, pc, raw_markdown, entry, ret, locals>>

\* inst.parseMarkdown(input) up to the loop: the early return, or the split
Call(inst, input) ==
    /\ pc = "idle"
    /\ inst \in constructed
    /\ self' = inst
    /\ op' = "parseMarkdown"
    /\ raw_markdown' = input
    /\ entry' = state[ThisBinding(inst)]
    /\ IF returnsEarly(input)
       THEN /\ pc' = "returned"
            /\ ret' = <<>>
            /\ UNCHANGED locals
       ELSE /\ pc' = "lines"
            /\ raw_lines' = split(input.val)
            /\ k' = 0
            /\ parsed_lines' = <<>>
            /\ not_a_paragraph' = {}
            /\ UNCHANGED <<i, ret>>
    /\ UNCHANGED <<state, constructed, leftover>>

\* the end of one iteration of the block-assembly loop, which leaves c
Advance(c) ==
    /\ state' = [state EXCEPT ![ThisBinding(self)] = c.state]
    /\ k' = c.k
    /\ parsed_lines' = c.parsed_lines
    /\ not_a_paragraph' = c.not_a_paragraph
    /\ pc' = IF c.k < Len(raw_lines) THEN "lines"
             ELSE IF Len(c.parsed_lines) > 0 THEN "post" ELSE "finish"
    /\ i' = 0
    /\ UNCHANGED <<constructed, self, op, raw_markdown, entry, raw_lines, ret, leftover>>

\* an iteration on a fence marker line
MarkerLine ==
    /\ pc = "lines"
    /\ k < Len(raw_lines)
    /\ branch(Context, raw_lines) = "marker"
    /\ Advance(codeContainerMarkerLine(Context, raw_lines))

\* an iteration on a line inside an open code container
ContentLine ==
    /\ pc = "lines"
    /\ k < Len(raw_lines)
    /\ branch(Context, raw_lines) = "content"
    /\ Advance(codeContainerContentLine(Context, raw_lines))

\* an iteration on any other line
BlockLine ==
    /\ pc = "lines"
    /\ k < Len(raw_lines)
    /\ branch(Context, raw_lines) = "block"
    /\ Advance(blockLine(Context, raw_lines))

\* one iteration of the post-pass loop
Post ==
    /\ pc = "post"
    /\ i < Len(parsed_lines)
    /\ parsed_lines' = postStep(parsed_lines, not_a_paragraph, i)
    /\ i' = i + 1
    /\ pc' = IF i + 1 < Len(parsed_lines) THEN "post" ELSE "finish"
    /\ UNCHANGED <<state, constructed, self, op, raw_markdown, entry, raw_lines, k,
                   not_a_paragraph, ret, leftover>>

\* the end of parseMarkdown: the closing blockquote tags, the join, the return
Finish ==
    /\ pc = "finish"
    /\ parsed_lines' = closeBlockquotes(parsed_lines, StateSeenBy(self))
    /\ ret' = join(parsed_lines')
    /\ pc' = "returned"
    /\ UNCHANGED <<state, constructed, self, op, raw_markdown, entry, raw_lines, k,
                   not_a_paragraph, i, leftover>>

\* the caller goes on: the call's locals and its result are gone
Resume ==
    /\ pc = "returned"
    /\ pc' = "idle"
    /\ raw_markdown' = NoInput
    /\ entry' = FreshState
    /\ raw_lines' = <<>>
    /\ k' = 0
    /\ parsed_lines' = <<>>
    /\ not_a_paragraph' = {}
    /\ i' = 0
    /\ ret' = <<>>
    /\ leftover' = <<>>
    /\ UNCHANGED <<state, constructed, self, op>>

\* one parser object has been constructed
Init ==
    /\ state = [h \in {"outer"} |-> FreshState]
    /\ constructed = {"A"}
    /\ pc = "idle"
    /\ self = "A"
    /\ op = "new"
    /\ raw_markdown = NoInput
    /\ entry = FreshState
    /\ raw_lines = <<>>
    /\ k = 0
    /\ parsed_lines = <<>>
    /\ not_a_paragraph = {}
    /\ i = 0
    /\ ret = <<>>
    /\ leftover = <<>>

\* reset, the loop iterations, the return and the caller's going on
Steps ==
    \/ \E inst \in Instances : Reset(inst)
    \/ MarkerLine
    \/ ContentLine
    \/ BlockLine
    \/ Post
    \/ Finish
    \/ Resume

Next == Steps \/ \E inst \in Instances, input \in Inputs : Call(inst, input)

Spec == Init /\ [][Next]_vars

\* a call is inside parseMarkdown
InCall == pc \in {"lines", "post", "finish"}

\* parseMarkdown is synchronous: once called it runs on to its return.  This
\* is weak fairness of the loop iterations and of the return; for the
\* iterations it is written out, ENABLED of an iteration being InCall and a
\* step from InCall that changes vars being a step of the call
RunsOn ==
    /\ WF_vars(Finish)
    /\ []<>(~InCall) \/ []<><<InCall>>_vars

SpecLive == Init /\ [][Next]_vars /\ RunsOn

\* the same with further parser objects constructed along the way
NextShared == Next \/ \E inst \in Instances : Construct(inst)

SpecShared == Init /\ [][NextShared]_vars

\* documents of up to MaxFenceLines fence markers, underlines and text lines
NextFence == Steps \/ \E inst \in Instances, input \in FenceInputs : Call(inst, input)

SpecFence == Init /\ [][NextFence]_vars

\* documents of up to MaxLines lines with and without a blockquote prefix
NextQuote == Steps \/ \E inst \in Instances, input \in PrefixedInputs : Call(inst, input)

SpecQuote == Init /\ [][NextQuote]_vars

\* one parse of a one-line document of up to MaxLineLen classifier characters
NextClassify ==
    \/ \E input \in ClassifierInputs : pc = "idle" /\ op = "new" /\ Call("A", input)
    \/ MarkerLine
    \/ BlockLine
    \/ Post
    \/ Finish

SpecClassify == Init /\ [][NextClassify]_vars

\* one parse of a one-line document of up to MaxText characters
NextText ==
    \/ \E input \in TextInputs : pc = "idle" /\ op = "new" /\ Call("A", input)
    \/ BlockLine
    \/ Post
    \/ Finish

SpecText == Init /\ [][NextText]_vars

----------------------------------------------------------------------------
(* Properties *)

Returned == pc = "returned"

\* the call found the state reset leaves
FromReset == entry = FreshState

Last(frags) == frags[Len(frags)]

\* C1 (as claimed): when a parse that started from the reset state returns,
\* the output holds as many </blockquote> tags as <blockquote> tags.
BlockquoteTagsBalance ==
    (Returned /\ FromReset)
        => Count(ret, BLOCKQUOTE_CLOSE) = Count(ret, BLOCKQUOTE_OPEN)

\* C2 (as claimed): the post-pass leaves every fragment flagged exempt (the
\* content of a code container) as the block assembler emitted it.
FenceContentKeptByPostPass ==
    [][(pc = "post" /\ i \in not_a_paragraph)
          => parsed_lines'[i + 1] = parsed_lines[i + 1]]_vars

\* C3: a parse that directly follows reset returns what a newly constructed
\* parser returns for the same input, whatever state reset discarded.
ResetParseIsFresh ==
    (Returned /\ leftover # <<>>)
        => ret = parseMarkdown(FreshState, raw_markdown).ret

\* C3 witness: reset discarded an open blockquote and an open code container,
\* which would have changed the result of the parse that followed
ResetDiscardedOpenBlocks ==
    /\ Returned
    /\ leftover # <<>>
    /\ leftover[1].blockquoteLevel > 0
    /\ leftover[1].insideCodeContainer
    /\ ret # parseMarkdown(leftover[1], raw_markdown).ret

\* C4 (as claimed): blockquoteLevel is 0 whenever parseMarkdown returns.
BlockquoteLevelZeroOnReturn ==
    Returned => StateSeenBy(self).blockquoteLevel = 0

\* C5 (as claimed): a step of an operation invoked on one instance leaves the
\* state every other instance sees unchanged.
InstancesDoNotInterfere ==
    [][\A a \in constructed : a # self' => StateSeenBy(a)' = StateSeenBy(a)]_vars

\* the lines of the document of the running call
DocLines == split(raw_markdown.val)

\* the 1-based numbers of the lines that hold a fence marker
MarkerLines(lines) == {j \in 1..Len(lines) : indexOf(lines[j], FENCE) >= 0}

\* a call on a document with an odd number of marker lines, from the reset
\* state, has returned
UnclosedFenceParsed ==
    /\ Returned
    /\ FromReset
    /\ raw_markdown.type = "string"
    /\ Cardinality(MarkerLines(DocLines)) % 2 = 1

PRE == <<"<", "pre">>

\* a text of one or more = or of one or more -
UnderlineText(t) ==
    /\ t # <<>>
    /\ \/ \A j \in 1..Len(t) : t[j] = "="
       \/ \A j \in 1..Len(t) : t[j] = "-"

\* the end-of-document cleanup appended no </pre>, and the fence is still
\* recorded as open
FenceLeftOpen ==
    /\ parsed_lines # <<>>
    /\ Last(parsed_lines) # CloseTag("pre")
    /\ StateSeenBy(self).insideCodeContainer

\* C6 (as claimed): with an odd number of marker lines the output holds
\* exactly one more <pre than </pre>, no </pre> is appended at the end, and
\* insideCodeContainer is true on return.
UnclosedFenceOneMorePre ==
    UnclosedFenceParsed
        => /\ Count(ret, PRE) = Count(ret, CloseTag("pre")) + 1
           /\ FenceLeftOpen

\* what escaping every reserved character of a text gives
RECURSIVE escapeEvery(_)
escapeEvery(text) ==
    IF text = <<>> THEN <<>>
    ELSE (CASE text[1] = "&" -> <<"&", "amp;">>
            [] text[1] = "<" -> <<"&", "lt;">>
            [] text[1] = ">" -> <<"&", "gt;">>
            [] OTHER -> <<text[1]>>) \o escapeEvery(Tail(text))

\* the line the loop is at is content of an open code container
AtContentLine ==
    /\ pc = "lines"
    /\ k < Len(raw_lines)
    /\ StateSeenBy(self).insideCodeContainer
    /\ indexOf(raw_lines[k + 1], FENCE) < 0

\* C7 (as claimed): a content line of a code container is emitted with every
\* <, > and & of its text escaped.
FenceContentFullyEscaped ==
    [][AtContentLine
          => /\ parsed_lines' # <<>>
             /\ Last(parsed_lines') = escapeEvery(raw_lines[k + 1]) \o <<"\n">>]_vars

\* the text of a line after its run of > and the whitespace behind it
AfterQuotePrefix(t) ==
    LET q == LeadingRun(t, {">"})
    IN  substring(t, q + LeadingRun(substring(t, q), Whitespace))

\* the line the loop is at, without trailing whitespace
CurLine == trimEnd(raw_lines[k + 1])

\* the line the loop is at goes to the setext handler
AtSetextLine ==
    /\ pc = "lines"
    /\ k < Len(raw_lines)
    /\ ~StateSeenBy(self).insideCodeContainer
    /\ UnderlineText(AfterQuotePrefix(CurLine))

SetextTag == IF "=" \in {CurLine[j] : j \in 1..Len(CurLine)} THEN "h1" ELSE "h2"

Wrapped(tag, frag) == OpenTag(tag) \o escapeHTMLChars(frag) \o CloseTag(tag)

\* C8 (as claimed): a setext line leaves the number of fragments unchanged and
\* replaces the fragment before it by that fragment wrapped in h1 or h2;
\* with no fragment before it, nothing changes.
SetextRewritesPrecedingFragment ==
    [][AtSetextLine
          => IF parsed_lines = <<>>
             THEN parsed_lines' = <<>>
             ELSE parsed_lines' =
                     [parsed_lines EXCEPT ![Len(parsed_lines)] = Wrapped(SetextTag, @)]]_vars

\* a text of one or more whitespace characters, or none
Blank(t) == \A j \in 1..Len(t) : t[j] \in Whitespace

\* C9: a call whose argument is not a string, or is empty or all whitespace,
\* returns the empty string at once and produces no fragment.
BlankInputReturnsEmpty ==
    (pc # "idle" /\ (raw_markdown.type # "string" \/ Blank(raw_markdown.val)))
        => /\ Returned
           /\ ret = <<>>
           /\ parsed_lines = <<>>

\* C9 witness: a call on a string of whitespace only has returned
WhitespaceInputReturned ==
    /\ Returned
    /\ raw_markdown.type = "string"
    /\ raw_markdown.val # <<>>
    /\ Blank(raw_markdown.val)
    /\ ret = <<>>

\* the document is ** x ** with x non-empty, free of * and _, of < (which
\* would keep the line out of a paragraph) and not ending in a backslash
StrongSpanBody(d) ==
    /\ Len(d) >= 5
    /\ d[1] = "*" /\ d[2] = "*" /\ d[Len(d) - 1] = "*" /\ d[Len(d)] = "*"
    /\ \A j \in 3..(Len(d) - 2) : d[j] \notin {"*", "_", "<"}
    /\ d[Len(d) - 2] # "\\"

\* C10 (as claimed): ** x ** is rendered as <strong>x</strong> inside the
\* paragraph, x being the text as the paragraph step left it, and no <em>
\* appears.
StrongSpanRendered ==
    (Returned /\ StrongSpanBody(raw_markdown.val))
        => /\ ret = OpenTag("p") \o OpenTag("strong")
                    \o escapeHTMLChars(SubSeq(raw_markdown.val, 3, Len(raw_markdown.val) - 2))
                    \o CloseTag("strong") \o CloseTag("p")
           /\ Count(ret, OpenTag("em")) = 0

\* the blockquote level the running call sees
Level == StateSeenBy(self).blockquoteLevel

\* the loop is at a line outside a code container that holds no fence marker
AtOutsideLine ==
    /\ pc = "lines"
    /\ k < Len(raw_lines)
    /\ ~StateSeenBy(self).insideCodeContainer
    /\ indexOf(raw_lines[k + 1], FENCE) < 0

\* the number of > the line the loop is at starts with
Depth == LeadingRun(CurLine, {">"})

\* C11 (as claimed): a line outside a code container that has no blockquote
\* prefix, met at blockquoteLevel > 0, sets blockquoteLevel to 0.
BlockquoteExitResetsLevel ==
    [][(AtOutsideLine /\ Depth = 0 /\ Level > 0) => Level' = 0]_vars

\* the loop is at a line outside a code container that starts with >
AtPrefixedLine ==
    /\ pc = "lines"
    /\ k < Len(raw_lines)
    /\ ~StateSeenBy(self).insideCodeContainer
    /\ Depth >= 1

\* C12 (as claimed): a line outside a code container that starts with n > 0
\* characters >, met at blockquoteLevel L, leaves blockquoteLevel = n.
PrefixedLineSetsLevel ==
    [][AtPrefixedLine => Level' = Depth]_vars

\* the fragments once the blockquote tags of the line at hand are pushed
AfterBlockquoteTags == blockquoteTags(Context, getBlockInfo(CurLine, 0)).parsed_lines

\* C12 (amended): a line outside a code container that starts with n > 0
\* characters > and holds no fence marker, met at blockquoteLevel L, emits one
\* fragment of n-L <blockquote> if n > L, one of L-n </blockquote> if n < L,
\* none if n = L, and leaves blockquoteLevel = n; what follows the prefix
\* selects the handler: <br /> for nothing, h1 for # text, the text itself
\* for text.
QuoteDepthFollowed ==
    [][(AtPrefixedLine /\ AtOutsideLine)
          => /\ AfterBlockquoteTags =
                   (IF Depth > Level
                    THEN Append(parsed_lines, repeat(BLOCKQUOTE_OPEN, Depth - Level))
                    ELSE IF Depth < Level
                    THEN Append(parsed_lines, repeat(BLOCKQUOTE_CLOSE, Level - Depth))
                    ELSE parsed_lines)
             /\ Level' = Depth
             /\ k' = k + 1
             /\ Blank(AfterQuotePrefix(CurLine))
                   => Last(parsed_lines') = <<"<", "br /", ">">>
             /\ AfterQuotePrefix(CurLine) = <<"a">>
                   => Last(parsed_lines') = <<"a">>
             /\ AfterQuotePrefix(CurLine) = <<"#", " ", "a">>
                   => Last(parsed_lines') = OpenTag("h1") \o <<"a">> \o CloseTag("h1")]_vars

\* C12 witness: a line of depth 1 met at blockquoteLevel 2 has pushed one
\* </blockquote> and its text, and left blockquoteLevel at 1
QuoteDepthReduced ==
    /\ pc \in {"lines", "post"}
    /\ i = 0
    /\ k = 1
    /\ entry.blockquoteLevel = 2
    /\ ~entry.insideCodeContainer
    /\ trimEnd(raw_lines[1]) = <<">", " ", "a">>
    /\ Level = 1
    /\ parsed_lines = <<BLOCKQUOTE_CLOSE, <<"a">>>>

\* the words of the tags the block handlers write
StructuralWords == {"blockquote", "br /", "pre", "p", "h1", "h2", "h3", "h4", "h5", "h6"}

\* C13 (as claimed): a line inside an open code container that holds no fence
\* marker adds one fragment, the line with its reserved characters escaped
\* and a line terminator, flagged exempt and free of any tag of a block
\* handler; the fragments before it, blockquoteLevel and insideCodeContainer
\* stay as they are.
FenceInteriorFrame ==
    [][AtContentLine
          => /\ parsed_lines' =
                   Append(parsed_lines, escapeEvery(raw_lines[k + 1]) \o <<"\n">>)
             /\ \A j \in 1..Len(Last(parsed_lines')) :
                   Last(parsed_lines')[j] \notin StructuralWords
             /\ not_a_paragraph' = not_a_paragraph \cup {Len(parsed_lines)}
             /\ state' = state
             /\ k' = k + 1]_vars

\* the loop is at a line that holds a fence marker
AtMarkerLine ==
    /\ pc = "lines"
    /\ k < Len(raw_lines)
    /\ indexOf(raw_lines[k + 1], FENCE) >= 0

\* the text that follows the first fence marker of the line the loop is at
AfterMarker == substring(CurLine, indexOf(CurLine, FENCE) + 3)

Inside == StateSeenBy(self).insideCodeContainer

\* C14 (as claimed): a fence marker line flips insideCodeContainer and adds
\* one fragment and nothing else: </pre> when the flag becomes false, and when
\* it becomes true <pre>, with class="lang-..." of the text that follows the
\* marker when that text is not blank.
FenceMarkerToggles ==
    [][AtMarkerLine
          => /\ Inside' = ~Inside
             /\ Level' = Level
             /\ k' = k + 1
             /\ parsed_lines' =
                   Append(parsed_lines,
                          IF Inside THEN CloseTag("pre")
                          ELSE IF Blank(AfterMarker) THEN OpenTag("pre")
                          ELSE <<"<", "pre", " class=\"lang-">> \o AfterMarker
                               \o <<"\"", ">">>)]_vars

\* the block type the classification rules give a text
Classified(t) ==
    IF Blank(t) THEN "break"
    ELSE IF \E p \in 1..Len(t) : OccursAt(t, FENCE, p) THEN "code_container_marker"
    ELSE IF \E p \in 1..Len(t) : t[p] = "#" /\ \A q \in 1..(p - 1) : t[q] \in Whitespace
         THEN "atx_heading"
    ELSE IF \E c \in {"=", "-"}, n \in 1..Len(t) :
               /\ \A q \in 1..n : t[q] = c
               /\ \A q \in (n + 1)..Len(t) : t[q] \in Whitespace
         THEN "setext_heading"
    ELSE IF t[1] = ">" THEN "blockquote"
    ELSE "plaintext"

\* C15: for every line of the document and every offset into it, getBlockInfo
\* returns break exactly for a blank rest, else the first of fence marker, ATX
\* heading, setext heading and blockquote whose rule the rest matches, and
\* plaintext exactly when none does.
ClassifierFollowsPriority ==
    \A j \in 1..Len(raw_lines) :
        \A off \in 0..Len(trimEnd(raw_lines[j])) :
            getBlockInfo(trimEnd(raw_lines[j]), off).block
                = Classified(SubSeq(trimEnd(raw_lines[j]), off + 1, Len(trimEnd(raw_lines[j]))))

\* C15 witness: a line that starts with > and holds a fence marker was taken
\* as a fence marker, not as a blockquote line
FenceMarkerBeatsBlockquote ==
    /\ pc = "post"
    /\ k = 1
    /\ raw_lines = << <<">">> \o FENCE >>
    /\ Inside
    /\ Level = 0
    /\ Len(parsed_lines) = 1

\* the fragment the post-pass is at, and whether it is flagged exempt
PostFragment == parsed_lines[i + 1]

PostExempt == i \in not_a_paragraph

HasMarkup(f) == \E j \in 1..Len(f) : f[j] = "<"

\* C16 (as claimed): the paragraph step wraps a fragment that is not exempt
\* and holds no < in one <p>...</p> with its reserved characters escaped,
\* leaves a fragment that holds a < as it is, and changes nothing when applied
\* to its own output.
ParagraphStepEscapesAndWraps ==
    (pc = "post" /\ i < Len(parsed_lines))
        => /\ (~PostExempt /\ ~HasMarkup(PostFragment))
                 => paragraph(PostFragment, PostExempt)
                       = OpenTag("p") \o escapeEvery(PostFragment) \o CloseTag("p")
           /\ HasMarkup(PostFragment)
                 => paragraph(PostFragment, PostExempt) = PostFragment
           /\ paragraph(paragraph(PostFragment, PostExempt), PostExempt)
                 = paragraph(PostFragment, PostExempt)

\* the document is one span: a delimiter, a text x, the delimiter again, x
\* non-empty, free of * _ and <, and not ending in a backslash
SpanOf(d, delim) ==
    /\ Len(d) > 2 * Len(delim)
    /\ SubSeq(d, 1, Len(delim)) = delim
    /\ SubSeq(d, Len(d) - Len(delim) + 1, Len(d)) = delim
    /\ \A j \in (Len(delim) + 1)..(Len(d) - Len(delim)) : d[j] \notin {"*", "_", "<"}
    /\ d[Len(d) - Len(delim)] # "\\"

SpanText(d, delim) == SubSeq(d, Len(delim) + 1, Len(d) - Len(delim))

\* C17 (as claimed): when the inline step rewrites a span, the text between
\* the tags is the text that stood between the delimiters once the paragraph
\* step had escaped it; it is not escaped again.
InlineStepKeepsSpanText ==
    Returned
        => \A r \in 1..Len(INLINE) :
              SpanOf(raw_markdown.val, INLINE[r].original)
                 => ret = OpenTag("p") \o OpenTag(INLINE[r].tag)
                          \o escapeHTMLChars(SpanText(raw_markdown.val, INLINE[r].original))
                          \o CloseTag(INLINE[r].tag) \o CloseTag("p")

\* C18: every iteration of the block-assembly loop moves k one line on and
\* leaves the lines as they are, the loop is left with k at the number of
\* lines, and a call that has entered the loop returns.
ParseTerminates ==
    /\ [][pc = "lines" => (k' = k + 1 /\ raw_lines' = raw_lines)]_vars
    /\ [](pc \in {"post", "finish"} => k = Len(raw_lines))
    /\ (pc = "lines" ~> Returned)

\* C18 witness: a call has returned after a line whose handler returned
\* nothing (a quoted line whose rest starts with > again) and an underline
ReturnedAfterSilentHandlers ==
    /\ Returned
    /\ raw_lines = << <<">", " ", ">", " ", "a">>, <<"=", "=">> >>
    /\ k = 2

\* the fragment is a heading of a setext underline, <h1>...</h1> or <h2>...</h2>
IsUnderlineHeading(f) ==
    /\ Len(f) >= 7
    /\ f[1] = "<" /\ f[2] \in {"h1", "h2"} /\ f[3] = ">"

\* C19 (as claimed): no fragment is a heading h1 or h2 around the tag of a
\* block handler: an underline never wraps a fragment of blockquote tags, a
\* <pre> or </pre>, a <br /> or a heading.
UnderlineWrapsTextOnly ==
    \A j \in 1..Len(parsed_lines) :
        IsUnderlineHeading(parsed_lines[j])
            => \A q \in 4..(Len(parsed_lines[j]) - 4) :
                  parsed_lines[j][q] \notin StructuralWords

\* the line the loop is at makes the assembler push a fragment of blockquote
\* tags before its block is handled
PushesBlockquoteTags ==
    IF Depth >= 1 THEN Depth # Level ELSE Level > 0

\* C20 (as claimed): a line outside a code container that is neither a fence
\* marker nor a setext underline adds exactly one fragment of its own, besides
\* the fragment of blockquote tags it may push.
LineAddsOneContentFragment ==
    [][(AtOutsideLine /\ ~UnderlineText(AfterQuotePrefix(CurLine)))
          => Len(parsed_lines') =
                Len(parsed_lines) + 1 + (IF PushesBlockquoteTags THEN 1 ELSE 0)]_vars

====
